---- MODULE Spec2Model ----
(***************************************************************************)
(* Model of the Open vSwitch network driver (ovs/driver.go): the network   *)
(* registry d.networks, the lifecycle handlers CreateNetwork,              *)
(* DeleteNetwork, Join and Leave, and the option-resolution functions.     *)
(*                                                                         *)
(* Handlers are served by concurrent goroutines (one per request of the    *)
(* plugin transport).  A handler is cut into steps at every access to the  *)
(* shared map d.networks and at every blocking call to a collaborator      *)
(* (switch manager, netlink, docker client); the code between two such     *)
(* points touches only locals and belongs to the step that precedes it.    *)
(* An access to the map takes two steps, MapAccessBegin and the step that  *)
(* completes it, because nothing in the source orders two accesses.        *)
(***************************************************************************)
EXTENDS Integers, Sequences, FiniteSets, TLC

(* ------------------------------------------------------------------ *)
(* Program constants (driver.go:16-41, main Run)                      *)
(* ------------------------------------------------------------------ *)
ovsPortPrefix == "ovs-veth0-"
bridgePrefix == "ovsbr-"
peerPrefix == "ethc"
containerEthName == "eth"
mtuOption == "net.gopher.ovs.bridge.mtu"
modeOption == "net.gopher.ovs.bridge.mode"
bridgeNameOption == "net.gopher.ovs.bridge.name"
bindInterfaceOption == "net.gopher.ovs.bridge.bind_interface"
modeNAT == "nat"
modeFlat == "flat"
defaultMTU == 1500
defaultMode == modeNAT
validModes == {modeNAT, modeFlat}
gatewayMask == "24"
truncateLen == 5
DriverName == "ovs"

(* ------------------------------------------------------------------ *)
(* Bounds and input universes                                         *)
(* ------------------------------------------------------------------ *)
\* Total number of handler invocations in a behaviour.
MaxCalls == 3

\* Serving goroutines that may run at the same time.
Workers == {1, 2}

\* "net1" is shorter than truncateLen; the two others are not, and they agree
\* on their first truncateLen characters.
NetworkIDs == {"net1", "alpha-net", "alpha-two"}
EndpointIDs == {"ep1", "endpoint12345"}
NoGateway == ""
\* Gateway strings; IPv4Literals are those net.ParseIP(..).To4() accepts.
IPv4Literals == {"10.0.0.1"}

EmptyOptions == [k \in {} |-> ""]
BogusModeOptions == [k \in {modeOption} |-> "bogus"]
\* Option maps a CreateNetwork request or an inspected network may carry.
CallOptions == {EmptyOptions, BogusModeOptions}
\* r.IPv4Data of a CreateNetwork request, as the list of its gateways.
CallIPv4Data == {<<>>, <<"10.0.0.1">>}
\* network.IPAM.Config of an inspected network, as the list of its gateways.
IPAMConfigs == {<<>>, <<"fe80::1", "10.0.0.1">>}

(* ------------------------------------------------------------------ *)
(* Errors and panics a handler can end with                           *)
(* ------------------------------------------------------------------ *)
Ok == "ok"
ErrInvalidMode == "error: not a valid mode"
ErrInitBridge == "error: initBridge"
ErrDeleteBridge == "error: deleteBridge"
ErrLinkAdd == "error: LinkAdd"
ErrLinkSetUp == "error: LinkSetUp"
ErrInspectNetwork == "error: InspectNetwork"
ErrNotOurNetwork == "error: Not our network"
ErrClientDisabled == "error: Docker client disabled"
ErrAddPort == "error: addOvsVethPort"
ErrDeletePort == "error: deletePort"
PanicSliceBounds == "panic: slice bounds out of range"
PanicIndexRange == "panic: index out of range"
PanicNilDeref == "panic: nil pointer dereference"
Errors == {ErrInvalidMode, ErrInitBridge, ErrDeleteBridge, ErrLinkAdd, ErrLinkSetUp,
           ErrInspectNetwork, ErrNotOurNetwork, ErrClientDisabled, ErrAddPort, ErrDeletePort}

(* ------------------------------------------------------------------ *)
(* Pure functions                                                     *)
(* ------------------------------------------------------------------ *)
\* id[:5] panics when the string is shorter than 5 bytes.
truncateIDPanics(id) == Len(id) < truncateLen

truncateID(id) == SubSeq(id, 1, truncateLen)

\* options[key] of a Go map: the zero string when the key is absent (or the map nil).
Lookup(options, key) == IF key \in DOMAIN options THEN options[key] ELSE ""

Digits == <<"0", "1", "2", "3", "4", "5", "6", "7", "8", "9">>

IsDigit(c) == \E i \in 1..10 : Digits[i] = c

DigitValue(c) == (CHOOSE i \in 1..10 : Digits[i] = c) - 1

AllDigits(s) == Len(s) > 0 /\ \A i \in 1..Len(s) : IsDigit(SubSeq(s, i, i))

RECURSIVE DecimalValue(_)
DecimalValue(s) ==
  IF Len(s) = 0 THEN 0
  ELSE 10 * DecimalValue(SubSeq(s, 1, Len(s) - 1)) + DigitValue(SubSeq(s, Len(s), Len(s)))

\* strconv.Atoi: an optional sign followed by decimal digits.
HasSign(s) == Len(s) > 0 /\ SubSeq(s, 1, 1) \in {"+", "-"}

Unsigned(s) == IF HasSign(s) THEN SubSeq(s, 2, Len(s)) ELSE s

AtoiOk(s) == AllDigits(Unsigned(s))

Atoi(s) ==
  IF HasSign(s) /\ SubSeq(s, 1, 1) = "-" THEN 0 - DecimalValue(Unsigned(s))
  ELSE DecimalValue(Unsigned(s))

\* Faulty variant: a negative MTU is refused and the default used instead.
getBridgeMTUValidatesRange(options) ==
  IF AtoiOk(Lookup(options, mtuOption)) /\ Atoi(Lookup(options, mtuOption)) >= 0
    THEN Atoi(Lookup(options, mtuOption))
  ELSE defaultMTU

getBridgeMTU(options) ==
  IF AtoiOk(Lookup(options, mtuOption)) THEN Atoi(Lookup(options, mtuOption)) ELSE defaultMTU

\* Evaluated only where truncateID does not panic: the derived name is computed
\* first, whether or not the name option overrides it.
getBridgeName(id, options) ==
  IF bridgeNameOption \in DOMAIN options THEN options[bridgeNameOption]
  ELSE bridgePrefix \o truncateID(id)

\* Faulty variant: an unrecognized mode is accepted.
getBridgeModeNeverFails(options) == FALSE

getBridgeModeFails(options) ==
  modeOption \in DOMAIN options /\ options[modeOption] \notin validModes

getBridgeMode(options) ==
  IF modeOption \in DOMAIN options THEN options[modeOption] ELSE defaultMode

getBindInterface(options) == Lookup(options, bindInterfaceOption)

vethName(suffix) == ovsPortPrefix \o suffix

vethPeerName(suffix) == peerPrefix \o suffix

\* The NetworkState setupNetworkState registers (lines 156-163).
NewNetworkState(id, options, gateway) ==
  [BridgeName |-> getBridgeName(id, options),
   MTU |-> getBridgeMTU(options),
   Mode |-> getBridgeMode(options),
   Gateway |-> gateway,
   GatewayMask |-> gatewayMask,
   FlatBindInterface |-> getBindInterface(options)]

\* How the part of setupNetworkState before the registration ends (lines 126-154):
\* a panic in getBridgeName, the error of getBridgeMode, or "ok".
ResolveOutcome(id, options) ==
  IF truncateIDPanics(id) THEN PanicSliceBounds
  ELSE IF getBridgeModeFails(options) THEN ErrInvalidMode
  ELSE Ok

\* findNetworkState's loop over network.IPAM.Config (lines 85-93).
RECURSIVE FirstIPv4Gateway(_)
FirstIPv4Gateway(config) ==
  IF Len(config) = 0 THEN NoGateway
  ELSE IF Head(config) \in IPv4Literals THEN Head(config)
  ELSE FirstIPv4Gateway(Tail(config))

(* ------------------------------------------------------------------ *)
(* State                                                              *)
(* ------------------------------------------------------------------ *)
VARIABLES
  boot,      \* NewDriver: where it stands, its connection attempts and its result
  networks,  \* d.networks: the registry, a map from network id to NetworkState
  crashed,   \* the runtime has thrown "concurrent map read and map write"
  ncalls,    \* handler invocations started so far
  pc,        \* per worker: where its handler stands
  req,       \* per worker: the request it serves
  ns,        \* per worker: the local ns / bridgeName of the handler
  ret,       \* per worker: what the handler ended with (Ok, an error, a panic)
  resp,      \* per worker: the JoinResponse of a successful Join
  calls,     \* per worker: the collaborator calls the handler has issued, in order
  acc,       \* per worker: the access to d.networks it is in the middle of
  writes,    \* per worker: the writes to d.networks the handler has performed
  before,    \* history, per worker: <<registry at dispatch>> while its call runs alone
  mon,       \* history: progress of a CreateNetwork(id) / DeleteNetwork(id) pair run back to back
  recon,     \* history: ids reconstructed by a Join run alone, no DeleteNetwork dispatched since
  after      \* history, per worker: its Join was dispatched after such a reconstruction

vars == <<boot, networks, crashed, ncalls, pc, req, ns, ret, resp, calls, acc, writes,
          before, mon, recon, after>>

history == <<before, mon, recon, after>>

NoRequest == [op |-> "", NetworkID |-> "", EndpointID |-> "", Options |-> EmptyOptions,
              IPv4Data |-> <<>>]

NoState == [BridgeName |-> "", MTU |-> 0, Mode |-> "", Gateway |-> "",
            GatewayMask |-> "", FlatBindInterface |-> ""]

NoResponse == [SrcName |-> "", DstPrefix |-> "", Gateway |-> ""]

EmptyRegistry == [id \in {} |-> NoState]

\* NewDriver builds the driver with an empty registry and a docker client.
dockerClientEnabled == TRUE

\* NewDriver has returned the driver, which holds a docker client and a switch
\* connection, and main serves requests with it; the locals of NewDriver are gone.
Constructed ==
  [phase |-> "serving", docker |-> TRUE, i |-> 0, attempts |-> <<>>,
   ovsdb |-> TRUE, slept |-> 0, err |-> ""]

MonitorOff == [phase |-> "off", id |-> "", inits |-> 0, dels |-> 0]

Init ==
  /\ boot = Constructed
  /\ networks = EmptyRegistry
  /\ crashed = FALSE
  /\ ncalls = 0
  /\ pc = [w \in Workers |-> "idle"]
  /\ req = [w \in Workers |-> NoRequest]
  /\ ns = [w \in Workers |-> NoState]
  /\ ret = [w \in Workers |-> ""]
  /\ resp = [w \in Workers |-> NoResponse]
  /\ calls = [w \in Workers |-> <<>>]
  /\ acc = [w \in Workers |-> "none"]
  /\ writes = [w \in Workers |-> <<>>]
  /\ before = [w \in Workers |-> <<>>]
  /\ mon = MonitorOff
  /\ recon = {}
  /\ after = [w \in Workers |-> FALSE]

(* ------------------------------------------------------------------ *)
(* Helpers of the actions                                             *)
(* ------------------------------------------------------------------ *)
\* d.networks[id] = state
MapSet(m, id, state) ==
  [x \in DOMAIN m \cup {id} |-> IF x = id THEN state ELSE m[x]]

\* delete(d.networks, id)
MapDelete(m, id) == [x \in DOMAIN m \ {id} |-> m[x]]

\* How a blocking call to a collaborator (switch manager, netlink) may end:
\* with success (TRUE) or with an error (FALSE).
CallOutcomes == BOOLEAN

\* A call to a collaborator: its arguments, whether it succeeded, and (for
\* InspectNetwork) the driver name it reported.
Call(name, args, ok) ==
  [call |-> name, args |-> args, ok |-> ok, reply |-> "", ipam |-> <<>>]

InspectCall(id, answer) ==
  [call |-> "InspectNetwork", args |-> <<id>>, ok |-> ~answer.err,
   reply |-> answer.Driver, ipam |-> answer.IPAM]

\* The program points at which the handler's next operation is an access to
\* d.networks, and the kind of that access.
ReadPoints == {"find", "deleteLookup", "leaveLookup"}

WritePoints == {"register", "rollback", "deleteRemove"}

AccessKind(point) == IF point \in WritePoints THEN "write" ELSE "read"

\* Two accesses conflict when they overlap and one of them writes.
Conflict(v, w) ==
  /\ v # w
  /\ acc[v] # "none"
  /\ acc[w] # "none"
  /\ "write" \in {acc[v], acc[w]}

\* Number of calls named `name` in the call log c.
Count(c, name) == Cardinality({i \in 1..Len(c) : c[i].call = name})

Issued(c, name) == \E i \in 1..Len(c) : c[i].call = name

Failed(c, name) == \E i \in 1..Len(c) : c[i].call = name /\ ~c[i].ok

Succeeded(c, name) == \E i \in 1..Len(c) : c[i].call = name /\ c[i].ok

AllIdle == \A v \in Workers : pc[v] = "idle"

\* The pair monitor when a call is dispatched: it follows a CreateNetwork(id)
\* dispatched on an empty registry with no other call running, and the
\* DeleteNetwork(id) dispatched right after that call has returned Ok; any
\* other dispatch ends the observation.
MonitorDispatch(op, id) ==
  IF op = "CreateNetwork" /\ AllIdle /\ networks = EmptyRegistry
    THEN [phase |-> "creating", id |-> id, inits |-> 0, dels |-> 0]
  ELSE IF op = "DeleteNetwork" /\ mon.phase = "created" /\ mon.id = id
    THEN [mon EXCEPT !.phase = "deleting"]
  ELSE MonitorOff

\* The pair monitor when worker w returns (w is the observed call when the
\* monitor is in a running phase: any other dispatch would have ended it).
MonitorReturn(w) ==
  IF mon.phase \in {"creating", "deleting"}
    THEN IF ret[w] = Ok
           THEN [phase |-> IF mon.phase = "creating" THEN "created" ELSE "finished",
                 id |-> mon.id,
                 inits |-> mon.inits + Count(calls[w], "initBridge"),
                 dels |-> mon.dels + Count(calls[w], "deleteBridge")]
           ELSE MonitorOff
  ELSE mon

\* Worker w ends a Join that ran alone and rebuilt the NetworkState through the
\* fallback, and no DeleteNetwork of that network is running.
Reconstructed(w) ==
  /\ req[w].op = "Join"
  /\ before[w] # <<>>
  /\ ret[w] = Ok
  /\ Issued(calls[w], "InspectNetwork")
  /\ \A v \in Workers :
       ~(req[v].op = "DeleteNetwork" /\ req[v].NetworkID = req[w].NetworkID)

\* A request (op on network id) is handed to the lowest idle worker (workers
\* are interchangeable).
Dispatch(w, op, id) ==
  /\ boot.phase = "serving"
  /\ ~crashed
  /\ ncalls < MaxCalls
  /\ pc[w] = "idle"
  /\ \A v \in Workers : v < w => pc[v] # "idle"
  /\ ncalls' = ncalls + 1
  /\ before' = [v \in Workers |-> IF v = w /\ AllIdle THEN <<networks>> ELSE <<>>]
  /\ mon' = MonitorDispatch(op, id)
  /\ recon' = IF op = "DeleteNetwork" THEN recon \ {id} ELSE recon
  /\ after' = [v \in Workers |->
                 IF v = w THEN op = "Join" /\ id \in recon
                 ELSE IF op = "DeleteNetwork" /\ req[v].NetworkID = id THEN FALSE
                 ELSE after[v]]

\* The handler of worker w stands at `point`; an access to the map has been begun.
At(w, point) == ~crashed /\ pc[w] = point

Accessing(w, point) == At(w, point) /\ acc[w] # "none"

(* ------------------------------------------------------------------ *)
(* Access to the shared map                                           *)
(* ------------------------------------------------------------------ *)
\* A handler begins its next read or write of d.networks.  No lock is taken:
\* the Driver struct (lines 43-50) holds none.
MapAccessBegin(w) ==
  /\ ~crashed
  /\ pc[w] \in ReadPoints \cup WritePoints
  /\ acc[w] = "none"
  /\ acc' = [acc EXCEPT ![w] = AccessKind(pc[w])]
  /\ UNCHANGED <<boot, networks, crashed, ncalls, pc, req, ns, ret, resp, calls, writes, history>>

\* Overlapping conflicting accesses to a Go map are a data race; one outcome is
\* the runtime's fatal "concurrent map read and map write", which ends the
\* process.  The other outcome modelled is that both accesses take effect, in
\* the order of the steps that complete them.
ConcurrentMapFault ==
  /\ ~crashed
  /\ \E v, w \in Workers : Conflict(v, w)
  /\ crashed' = TRUE
  /\ UNCHANGED <<boot, networks, ncalls, pc, req, ns, ret, resp, calls, acc, writes, history>>

(* ------------------------------------------------------------------ *)
(* CreateNetwork and setupNetworkState                                *)
(* ------------------------------------------------------------------ *)
\* CreateNetwork (lines 98-103) up to the registration in setupNetworkState
\* (lines 125-163).  r.IPv4Data[0] is evaluated before setupNetworkState is
\* entered.
StartCreateNetwork(w) ==
  \E id \in NetworkIDs, options \in CallOptions, data \in CallIPv4Data :
    /\ Dispatch(w, "CreateNetwork", id)
    /\ UNCHANGED <<boot, networks, crashed, resp, calls, acc, writes>>
    /\ LET r == [op |-> "CreateNetwork", NetworkID |-> id, EndpointID |-> "",
                 Options |-> options, IPv4Data |-> data]
           out == IF Len(data) = 0 THEN PanicIndexRange ELSE ResolveOutcome(id, options)
       IN /\ req' = [req EXCEPT ![w] = r]
          /\ IF out = Ok
               THEN /\ ns' = [ns EXCEPT ![w] = NewNetworkState(id, options, data[1])]
                    /\ pc' = [pc EXCEPT ![w] = "register"]
                    /\ ret' = ret
               ELSE /\ ns' = ns
                    /\ pc' = [pc EXCEPT ![w] = "done"]
                    /\ ret' = [ret EXCEPT ![w] = out]

\* d.networks[id] = ns (line 164).
RegisterNetwork(w) ==
  /\ Accessing(w, "register")
  /\ networks' = MapSet(networks, req[w].NetworkID, ns[w])
  /\ writes' = [writes EXCEPT ![w] = Append(@, <<"set", req[w].NetworkID>>)]
  /\ acc' = [acc EXCEPT ![w] = "none"]
  /\ pc' = [pc EXCEPT ![w] = "initBridge"]
  /\ UNCHANGED <<boot, crashed, ncalls, req, ns, ret, resp, calls, history>>

\* Where setupNetworkState goes after d.initBridge(id) (lines 167-171): to the
\* rollback on an error, else back to its caller.
AfterInitBridge(op, ok) ==
  IF ~ok THEN "rollback"
  ELSE IF op = "Join" THEN "addPort"
  ELSE "done"

\* d.initBridge(id) (line 167); a successful CreateNetwork returns here.
InitBridge(w) ==
  /\ At(w, "initBridge")
  /\ \E ok \in CallOutcomes :
       /\ calls' = [calls EXCEPT ![w] = Append(@, Call("initBridge", <<req[w].NetworkID>>, ok))]
       /\ pc' = [pc EXCEPT ![w] = AfterInitBridge(req[w].op, ok)]
       /\ ret' = [ret EXCEPT ![w] = IF AfterInitBridge(req[w].op, ok) = "done" THEN Ok ELSE @]
  /\ UNCHANGED <<boot, networks, crashed, ncalls, req, ns, resp, acc, writes, history>>

\* Faulty variant: the rollback is forgotten.
RollbackRegistryKeepsEntry(m, id) == m

\* The registry after the rollback of line 168.
RollbackRegistry(m, id) == MapDelete(m, id)

\* delete(d.networks, id); return nil, err (lines 168-169).  Both callers return
\* the error at once.
RollbackNetwork(w) ==
  /\ Accessing(w, "rollback")
  /\ networks' = RollbackRegistry(networks, req[w].NetworkID)
  /\ writes' = [writes EXCEPT ![w] = Append(@, <<"delete", req[w].NetworkID>>)]
  /\ acc' = [acc EXCEPT ![w] = "none"]
  /\ pc' = [pc EXCEPT ![w] = "done"]
  /\ ret' = [ret EXCEPT ![w] = ErrInitBridge]
  /\ UNCHANGED <<boot, crashed, ncalls, req, ns, resp, calls, history>>

(* ------------------------------------------------------------------ *)
(* DeleteNetwork                                                      *)
(* ------------------------------------------------------------------ *)
StartDeleteNetwork(w) ==
  /\ \E id \in NetworkIDs :
       /\ Dispatch(w, "DeleteNetwork", id)
       /\ req' = [req EXCEPT ![w] = [NoRequest EXCEPT !.op = "DeleteNetwork", !.NetworkID = id]]
  /\ pc' = [pc EXCEPT ![w] = "deleteLookup"]
  /\ UNCHANGED <<boot, networks, crashed, ns, ret, resp, calls, acc, writes>>

\* bridgeName := d.networks[r.NetworkID].BridgeName (line 176): the map yields a
\* nil *NetworkState for an absent key, and the field access dereferences it.
DeleteLookup(w) ==
  /\ Accessing(w, "deleteLookup")
  /\ acc' = [acc EXCEPT ![w] = "none"]
  /\ IF req[w].NetworkID \in DOMAIN networks
       THEN /\ ns' = [ns EXCEPT ![w] = [NoState EXCEPT !.BridgeName =
                                           networks[req[w].NetworkID].BridgeName]]
            /\ pc' = [pc EXCEPT ![w] = "deleteBridge"]
            /\ ret' = ret
       ELSE /\ ns' = ns
            /\ pc' = [pc EXCEPT ![w] = "done"]
            /\ ret' = [ret EXCEPT ![w] = PanicNilDeref]
  /\ UNCHANGED <<boot, networks, crashed, ncalls, req, resp, calls, writes, history>>

\* Faulty variant: the error of deleteBridge is not checked.
AfterDeleteBridgeIgnoresError(ok) == "deleteRemove"

\* Where DeleteNetwork goes after d.deleteBridge (lines 178-183).
AfterDeleteBridge(ok) == IF ok THEN "deleteRemove" ELSE "done"

\* err := d.deleteBridge(bridgeName) (lines 178-182).
DeleteBridge(w) ==
  /\ At(w, "deleteBridge")
  /\ \E ok \in CallOutcomes :
       /\ calls' = [calls EXCEPT ![w] = Append(@, Call("deleteBridge", <<ns[w].BridgeName>>, ok))]
       /\ pc' = [pc EXCEPT ![w] = AfterDeleteBridge(ok)]
       /\ ret' = [ret EXCEPT ![w] = IF ok THEN @ ELSE ErrDeleteBridge]
  /\ UNCHANGED <<boot, networks, crashed, ncalls, req, ns, resp, acc, writes, history>>

\* Faulty variant: DeleteNetwork forgets to drop the entry.
RemoveRegistryKeepsEntry(m, id) == m

\* The registry after line 183.
RemoveRegistry(m, id) == MapDelete(m, id)

\* delete(d.networks, r.NetworkID); return nil (lines 183-184).
DeleteRemove(w) ==
  /\ Accessing(w, "deleteRemove")
  /\ networks' = RemoveRegistry(networks, req[w].NetworkID)
  /\ writes' = [writes EXCEPT ![w] = Append(@, <<"delete", req[w].NetworkID>>)]
  /\ acc' = [acc EXCEPT ![w] = "none"]
  /\ pc' = [pc EXCEPT ![w] = "done"]
  /\ ret' = [ret EXCEPT ![w] = Ok]
  /\ UNCHANGED <<boot, crashed, ncalls, req, ns, resp, calls, history>>

(* ------------------------------------------------------------------ *)
(* Join and findNetworkState                                          *)
(* ------------------------------------------------------------------ *)
\* What d.dockerer.client.InspectNetwork(id) may answer: an error, or a network
\* with its driver name, options and IPAM gateways.
InspectResults ==
  {[err |-> TRUE, Driver |-> "", Options |-> EmptyOptions, IPAM |-> <<>>],
   [err |-> FALSE, Driver |-> "bridge", Options |-> EmptyOptions, IPAM |-> <<>>]}
  \cup {[err |-> FALSE, Driver |-> DriverName, Options |-> o, IPAM |-> c] :
          o \in CallOptions, c \in IPAMConfigs}

\* Join starts with vethPair(truncateID(r.EndpointID)) (line 206).
StartJoin(w) ==
  /\ \E id \in NetworkIDs, ep \in EndpointIDs :
       /\ Dispatch(w, "Join", id)
       /\ req' = [req EXCEPT ![w] = [NoRequest EXCEPT !.op = "Join", !.NetworkID = id,
                                                      !.EndpointID = ep]]
       /\ pc' = [pc EXCEPT ![w] = IF truncateIDPanics(ep) THEN "done" ELSE "linkAdd"]
       /\ ret' = [ret EXCEPT ![w] = IF truncateIDPanics(ep) THEN PanicSliceBounds ELSE @]
  /\ UNCHANGED <<boot, networks, crashed, ns, resp, calls, acc, writes>>

\* Where Join goes after netlink.LinkAdd (lines 207-210).
AfterLinkAdd(ok) == IF ok THEN "linkSetUp" ELSE "done"

LinkAdd(w) ==
  /\ At(w, "linkAdd")
  /\ \E ok \in CallOutcomes :
       /\ calls' = [calls EXCEPT ![w] =
                      Append(@, Call("LinkAdd", <<vethName(truncateID(req[w].EndpointID))>>, ok))]
       /\ pc' = [pc EXCEPT ![w] = AfterLinkAdd(ok)]
       /\ ret' = [ret EXCEPT ![w] = IF AfterLinkAdd(ok) = "done" THEN ErrLinkAdd ELSE @]
  /\ UNCHANGED <<boot, networks, crashed, ncalls, req, ns, resp, acc, writes, history>>

\* Faulty variant: the error of LinkSetUp is not checked.
AfterLinkSetUpIgnoresError(ok) == "find"

\* Where Join goes after netlink.LinkSetUp (lines 212-216).
AfterLinkSetUp(ok) == IF ok THEN "find" ELSE "done"

LinkSetUp(w) ==
  /\ At(w, "linkSetUp")
  /\ \E ok \in CallOutcomes :
       /\ calls' = [calls EXCEPT ![w] =
                      Append(@, Call("LinkSetUp", <<vethName(truncateID(req[w].EndpointID))>>, ok))]
       /\ pc' = [pc EXCEPT ![w] = AfterLinkSetUp(ok)]
       /\ ret' = [ret EXCEPT ![w] = IF AfterLinkSetUp(ok) = "done" THEN ErrLinkSetUp ELSE @]
  /\ UNCHANGED <<boot, networks, crashed, ncalls, req, ns, resp, acc, writes, history>>

\* Where findNetworkState goes after ns, found := d.networks[id] (lines 64-72).
AfterFind(found) ==
  IF found THEN "addPort"
  ELSE IF dockerClientEnabled THEN "inspect"
  ELSE "done"

\* ns, found := d.networks[id] (lines 64-72).
FindLookup(w) ==
  /\ Accessing(w, "find")
  /\ acc' = [acc EXCEPT ![w] = "none"]
  /\ LET found == req[w].NetworkID \in DOMAIN networks
     IN /\ pc' = [pc EXCEPT ![w] = AfterFind(found)]
        /\ ns' = [ns EXCEPT ![w] = IF found THEN networks[req[w].NetworkID] ELSE @]
        /\ ret' = [ret EXCEPT ![w] = IF AfterFind(found) = "done" THEN ErrClientDisabled ELSE @]
  /\ UNCHANGED <<boot, networks, crashed, ncalls, req, resp, calls, writes, history>>

\* Faulty variant: the driver name of the inspected network is not checked.
IsOurNetworkUnchecked(driver) == TRUE

\* The check of line 81.
IsOurNetwork(driver) == driver = DriverName

\* How findNetworkState proceeds on the answer of InspectNetwork (lines 75-95),
\* up to the registration in setupNetworkState.
InspectOutcome(id, answer) ==
  IF answer.err THEN ErrInspectNetwork
  ELSE IF ~IsOurNetwork(answer.Driver) THEN ErrNotOurNetwork
  ELSE ResolveOutcome(id, answer.Options)

\* network, err := d.dockerer.client.InspectNetwork(id) (lines 74-95).
InspectNetwork(w) ==
  /\ At(w, "inspect")
  /\ \E answer \in InspectResults :
       LET id == req[w].NetworkID
           out == InspectOutcome(id, answer)
       IN /\ calls' = [calls EXCEPT ![w] = Append(@, InspectCall(id, answer))]
          /\ IF out = Ok
               THEN /\ ns' = [ns EXCEPT ![w] =
                                NewNetworkState(id, answer.Options, FirstIPv4Gateway(answer.IPAM))]
                    /\ pc' = [pc EXCEPT ![w] = "register"]
                    /\ ret' = ret
               ELSE /\ ns' = ns
                    /\ pc' = [pc EXCEPT ![w] = "done"]
                    /\ ret' = [ret EXCEPT ![w] = out]
  /\ UNCHANGED <<boot, networks, crashed, ncalls, req, resp, acc, writes, history>>

\* Faulty variant: the response names the local side of the pair and no gateway.
JoinResponseLocalSide(endpoint, state) ==
  [SrcName |-> vethName(truncateID(endpoint)),
   DstPrefix |-> containerEthName,
   Gateway |-> NoGateway]

\* The JoinResponse of lines 232-238.
JoinResponse(endpoint, state) ==
  [SrcName |-> vethPeerName(truncateID(endpoint)),
   DstPrefix |-> containerEthName,
   Gateway |-> state.Gateway]

\* err = d.addOvsVethPort(bridgeName, localVethPair.Name, 0) (lines 223-240).
AddPort(w) ==
  /\ At(w, "addPort")
  /\ \E ok \in CallOutcomes :
       /\ calls' = [calls EXCEPT ![w] =
                      Append(@, Call("addOvsVethPort",
                                     <<ns[w].BridgeName, vethName(truncateID(req[w].EndpointID))>>,
                                     ok))]
       /\ ret' = [ret EXCEPT ![w] = IF ok THEN Ok ELSE ErrAddPort]
       /\ resp' = [resp EXCEPT ![w] = IF ok THEN JoinResponse(req[w].EndpointID, ns[w]) ELSE @]
  /\ pc' = [pc EXCEPT ![w] = "done"]
  /\ UNCHANGED <<boot, networks, crashed, ncalls, req, ns, acc, writes, history>>

(* ------------------------------------------------------------------ *)
(* Leave                                                              *)
(* ------------------------------------------------------------------ *)
\* Leave starts with vethPair(truncateID(r.EndpointID)) (line 245).
StartLeave(w) ==
  /\ \E id \in NetworkIDs, ep \in EndpointIDs :
       /\ Dispatch(w, "Leave", id)
       /\ req' = [req EXCEPT ![w] = [NoRequest EXCEPT !.op = "Leave", !.NetworkID = id,
                                                      !.EndpointID = ep]]
       /\ pc' = [pc EXCEPT ![w] = IF truncateIDPanics(ep) THEN "done" ELSE "linkDel"]
       /\ ret' = [ret EXCEPT ![w] = IF truncateIDPanics(ep) THEN PanicSliceBounds ELSE @]
  /\ UNCHANGED <<boot, networks, crashed, ns, resp, calls, acc, writes>>

\* Where Leave goes after netlink.LinkDel (lines 246-248): the error is logged only.
AfterLinkDel(ok) == "leaveLookup"

LinkDel(w) ==
  /\ At(w, "linkDel")
  /\ \E ok \in CallOutcomes :
       /\ calls' = [calls EXCEPT ![w] =
                      Append(@, Call("LinkDel", <<vethName(truncateID(req[w].EndpointID))>>, ok))]
       /\ pc' = [pc EXCEPT ![w] = AfterLinkDel(ok)]
  /\ UNCHANGED <<boot, networks, crashed, ncalls, req, ns, ret, resp, acc, writes, history>>

\* bridgeName := d.networks[r.NetworkID].BridgeName (line 250): a nil
\* *NetworkState is dereferenced when the key is absent.
LeaveLookup(w) ==
  /\ Accessing(w, "leaveLookup")
  /\ acc' = [acc EXCEPT ![w] = "none"]
  /\ IF req[w].NetworkID \in DOMAIN networks
       THEN /\ ns' = [ns EXCEPT ![w] = [NoState EXCEPT !.BridgeName =
                                           networks[req[w].NetworkID].BridgeName]]
            /\ pc' = [pc EXCEPT ![w] = "deletePort"]
            /\ ret' = ret
       ELSE /\ ns' = ns
            /\ pc' = [pc EXCEPT ![w] = "done"]
            /\ ret' = [ret EXCEPT ![w] = PanicNilDeref]
  /\ UNCHANGED <<boot, networks, crashed, ncalls, req, resp, calls, writes, history>>

\* What Leave returns after d.ovsdber.deletePort (lines 251-258).
LeaveResult(ok) == IF ok THEN Ok ELSE ErrDeletePort

DeletePort(w) ==
  /\ At(w, "deletePort")
  /\ \E ok \in CallOutcomes :
       /\ calls' = [calls EXCEPT ![w] =
                      Append(@, Call("deletePort",
                                     <<ns[w].BridgeName,
                                       ovsPortPrefix \o truncateID(req[w].EndpointID)>>, ok))]
       /\ ret' = [ret EXCEPT ![w] = LeaveResult(ok)]
  /\ pc' = [pc EXCEPT ![w] = "done"]
  /\ UNCHANGED <<boot, networks, crashed, ncalls, req, ns, resp, acc, writes, history>>

(* ------------------------------------------------------------------ *)
(* The handler has answered (or its goroutine has unwound from a      *)
(* panic, which net/http recovers): the worker is free again.         *)
(* ------------------------------------------------------------------ *)
Return(w) ==
  /\ At(w, "done")
  /\ pc' = [pc EXCEPT ![w] = "idle"]
  /\ req' = [req EXCEPT ![w] = NoRequest]
  /\ ns' = [ns EXCEPT ![w] = NoState]
  /\ ret' = [ret EXCEPT ![w] = ""]
  /\ resp' = [resp EXCEPT ![w] = NoResponse]
  /\ calls' = [calls EXCEPT ![w] = <<>>]
  /\ writes' = [writes EXCEPT ![w] = <<>>]
  /\ before' = [before EXCEPT ![w] = <<>>]
  /\ mon' = MonitorReturn(w)
  /\ recon' = IF Reconstructed(w) THEN recon \cup {req[w].NetworkID} ELSE recon
  /\ after' = [after EXCEPT ![w] = FALSE]
  /\ UNCHANGED <<boot, networks, crashed, ncalls, acc>>

Next ==
  \/ ConcurrentMapFault
  \/ \E w \in Workers :
       \/ StartCreateNetwork(w)
       \/ StartDeleteNetwork(w)
       \/ StartJoin(w)
       \/ StartLeave(w)
       \/ MapAccessBegin(w)
       \/ RegisterNetwork(w)
       \/ InitBridge(w)
       \/ RollbackNetwork(w)
       \/ DeleteLookup(w)
       \/ DeleteBridge(w)
       \/ DeleteRemove(w)
       \/ LinkAdd(w)
       \/ LinkSetUp(w)
       \/ FindLookup(w)
       \/ InspectNetwork(w)
       \/ AddPort(w)
       \/ LinkDel(w)
       \/ LeaveLookup(w)
       \/ DeletePort(w)
       \/ Return(w)

Spec == Init /\ [][Next]_vars

(* ================================================================== *)
(* Startup: NewDriver, then the handlers                              *)
(* ================================================================== *)
\* retries := 3 (line 279) and the pause of time.Sleep(5 * time.Second) (line 286).
retries == 3

retryDelay == 5

ErrDocker == "error: could not connect to docker"

ErrOvsdb == "error: could not connect to open vswitch"

\* main has called NewDriver, which has done nothing yet.
NotStarted ==
  [phase |-> "docker", docker |-> FALSE, i |-> 0, attempts |-> <<>>,
   ovsdb |-> FALSE, slept |-> 0, err |-> ""]

StartInit ==
  /\ boot = NotStarted
  /\ networks = EmptyRegistry
  /\ crashed = FALSE
  /\ ncalls = 0
  /\ pc = [w \in Workers |-> "idle"]
  /\ req = [w \in Workers |-> NoRequest]
  /\ ns = [w \in Workers |-> NoState]
  /\ ret = [w \in Workers |-> ""]
  /\ resp = [w \in Workers |-> NoResponse]
  /\ calls = [w \in Workers |-> <<>>]
  /\ acc = [w \in Workers |-> "none"]
  /\ writes = [w \in Workers |-> <<>>]
  /\ before = [w \in Workers |-> <<>>]
  /\ mon = MonitorOff
  /\ recon = {}
  /\ after = [w \in Workers |-> FALSE]

serving == <<networks, crashed, ncalls, pc, req, ns, ret, resp, calls, acc, writes, history>>

\* The loop condition i < retries (line 280).
AfterLoopTest(i) == IF i < retries THEN "connect" ELSE "check"

\* docker, err := dockerclient.NewDockerClient(...) (lines 272-275).
NewDockerClient ==
  /\ boot.phase = "docker"
  /\ \E ok \in CallOutcomes :
       boot' = IF ok THEN [boot EXCEPT !.docker = TRUE, !.phase = AfterLoopTest(boot.i)]
               ELSE [boot EXCEPT !.phase = "failed", !.err = ErrDocker]
  /\ UNCHANGED serving

\* Faulty variant: the loop does not stop at a successful Connect.
AfterConnectKeepsTrying(ok) == "sleep"

\* if err == nil { break } (lines 282-284), else log and sleep.
AfterConnect(ok) == IF ok THEN "check" ELSE "sleep"

\* ovsdb, err = libovsdb.Connect(localhost, ovsdbPort) (line 281).
ConnectOvsdb ==
  /\ boot.phase = "connect"
  /\ \E ok \in CallOutcomes :
       boot' = [boot EXCEPT !.attempts = Append(@, ok),
                            !.ovsdb = ok,
                            !.phase = AfterConnect(ok)]
  /\ UNCHANGED serving

\* time.Sleep(5 * time.Second), then i++ and the loop condition (lines 286, 280).
SleepBeforeRetry ==
  /\ boot.phase = "sleep"
  /\ boot' = [boot EXCEPT !.slept = @ + retryDelay,
                           !.i = @ + 1,
                           !.phase = AfterLoopTest(boot.i + 1)]
  /\ UNCHANGED serving

\* if ovsdb == nil { return nil, error } else the driver is built and returned
\* (lines 289-305), and main serves with it (part_000, lines 40-45).
ReturnDriver ==
  /\ boot.phase = "check"
  /\ boot' = IF boot.ovsdb THEN Constructed
             ELSE [boot EXCEPT !.phase = "failed", !.err = ErrOvsdb]
  /\ UNCHANGED serving

Startup ==
  \/ NewDockerClient
  \/ ConnectOvsdb
  \/ SleepBeforeRetry
  \/ ReturnDriver

StartNext == Startup \/ Next

\* NewDriver runs on the main goroutine before any request is served; each of
\* its blocking calls returns, so its next step is eventually taken.
StartSpec == StartInit /\ [][StartNext]_vars /\ WF_vars(Startup)

(* ================================================================== *)
(* The option resolvers on their own                                  *)
(* ================================================================== *)
\* Values the options of a network may carry, per key.
ModeValues == {"nat", "flat", "bogus", "NAT", ""}

MTUValues == {"9000", "0", "-1", "+5", "15x", "abc", ""}

BridgeNameValues == {"br0"}

BindInterfaceValues == {"eth1"}

OptionKeys == {mtuOption, modeOption, bridgeNameOption, bindInterfaceOption}

OptionValues(key) ==
  CASE key = mtuOption -> MTUValues
    [] key = modeOption -> ModeValues
    [] key = bridgeNameOption -> BridgeNameValues
    [] key = bindInterfaceOption -> BindInterfaceValues

\* The option maps (map[string]string) over these keys and values.
ConfigOptions ==
  UNION {{o \in [keys -> UNION {OptionValues(k) : k \in keys}] :
            \A k \in keys : o[k] \in OptionValues(k)} : keys \in SUBSET OptionKeys}

\* The four resolvers setupNetworkState calls (lines 126, 131, 136, 151).
Resolvers == {"getBridgeName", "getBridgeMTU", "getBridgeMode", "getBindInterface"}

\* Goroutine 1 holds an id and an option map and is about to call the resolvers.
ConfigInit ==
  /\ \E id \in NetworkIDs, options \in ConfigOptions :
       req = [w \in Workers |->
                IF w = 1 THEN [op |-> "setupNetworkState", NetworkID |-> id,
                               EndpointID |-> "", Options |-> options, IPv4Data |-> <<>>]
                ELSE NoRequest]
  /\ pc = [w \in Workers |-> IF w = 1 THEN "resolve" ELSE "idle"]
  /\ boot = Constructed
  /\ networks = EmptyRegistry
  /\ crashed = FALSE
  /\ ncalls = 0
  /\ ns = [w \in Workers |-> NoState]
  /\ ret = [w \in Workers |-> ""]
  /\ resp = [w \in Workers |-> NoResponse]
  /\ calls = [w \in Workers |-> <<>>]
  /\ acc = [w \in Workers |-> "none"]
  /\ writes = [w \in Workers |-> <<>>]
  /\ before = [w \in Workers |-> <<>>]
  /\ mon = MonitorOff
  /\ recon = {}
  /\ after = [w \in Workers |-> FALSE]

\* The record of a resolver call: ok is FALSE when it returned an error or
\* panicked, and reply is then that error.
Resolved(name, ok, err) ==
  [call |-> name, args |-> <<>>, ok |-> ok, reply |-> IF ok THEN "" ELSE err, ipam |-> <<>>]

\* A resolver is called once on the request of goroutine w; its result goes to
\* the field of the NetworkState under construction.
CallResolver(w, name, ok, err, state) ==
  /\ pc[w] = "resolve"
  /\ ~Issued(calls[w], name)
  /\ calls' = [calls EXCEPT ![w] = Append(@, Resolved(name, ok, err))]
  /\ ns' = [ns EXCEPT ![w] = IF ok THEN state ELSE @]
  /\ UNCHANGED <<boot, networks, crashed, ncalls, pc, req, ret, resp, acc, writes, history>>

\* bridgeName, err := getBridgeName(id, options) (line 126; lines 338-344).
CallGetBridgeName(w) ==
  LET id == req[w].NetworkID
      ok == ~truncateIDPanics(id)
  IN CallResolver(w, "getBridgeName", ok, PanicSliceBounds,
                  [ns[w] EXCEPT !.BridgeName =
                     IF ok THEN getBridgeName(id, req[w].Options) ELSE @])

\* mtu, err := getBridgeMTU(options) (line 131; lines 330-336).
CallGetBridgeMTU(w) ==
  CallResolver(w, "getBridgeMTU", TRUE, "",
               [ns[w] EXCEPT !.MTU = getBridgeMTU(req[w].Options)])

\* mode, err := getBridgeMode(options) (line 136; lines 346-355).
CallGetBridgeMode(w) ==
  CallResolver(w, "getBridgeMode", ~getBridgeModeFails(req[w].Options), ErrInvalidMode,
               [ns[w] EXCEPT !.Mode = getBridgeMode(req[w].Options)])

\* bindInterface, err := getBindInterface(options) (line 151; lines 397-403).
CallGetBindInterface(w) ==
  CallResolver(w, "getBindInterface", TRUE, "",
               [ns[w] EXCEPT !.FlatBindInterface = getBindInterface(req[w].Options)])

ConfigNext ==
  \E w \in Workers :
    \/ CallGetBridgeName(w)
    \/ CallGetBridgeMTU(w)
    \/ CallGetBridgeMode(w)
    \/ CallGetBindInterface(w)

ConfigSpec == ConfigInit /\ [][ConfigNext]_vars

(* ================================================================== *)
(* Properties                                                         *)
(* ================================================================== *)
Done(w, op) == pc[w] = "done" /\ req[w].op = op

\* The call of worker w has run with no other call dispatched since its own.
Solo(w) == before[w] # <<>>

Before(w) == before[w][1]

LastCall(w) == calls[w][Len(calls[w])]

(* ------------------------------------------------------------------ *)
(* C1: if bridge initialization fails during CreateNetwork(id), then   *)
(* at the step with which the call returns it returns the initBridge   *)
(* error and id is absent from the registry.                           *)
(* ------------------------------------------------------------------ *)
C1_CreateRollsBackOnInitFailure ==
  [][\A w \in Workers :
       (/\ req'[w].op = "CreateNetwork"
        /\ pc[w] # "done"
        /\ pc'[w] = "done"
        /\ Failed(calls'[w], "initBridge"))
       => (/\ ret'[w] = ErrInitBridge
           /\ req'[w].NetworkID \notin DOMAIN networks')]_vars

C1_Witness ==
  \E w \in Workers :
    /\ Done(w, "CreateNetwork")
    /\ Failed(calls[w], "initBridge")
    /\ ret[w] = ErrInitBridge
    /\ writes[w] = <<<<"set", req[w].NetworkID>>, <<"delete", req[w].NetworkID>>>>
    /\ req[w].NetworkID \notin DOMAIN networks

(* ------------------------------------------------------------------ *)
(* C2: DeleteNetwork(id) changes the registry only after its           *)
(* deleteBridge call has succeeded, and a successful return leaves id  *)
(* unregistered; if deleteBridge fails the call returns that error     *)
(* having written nothing to the registry, and when no other call ran  *)
(* meanwhile the registry is what it was at dispatch, id still there.  *)
(* ------------------------------------------------------------------ *)
C2_FailedDeleteKeepsEntry ==
  \A w \in Workers :
    (Done(w, "DeleteNetwork") /\ Failed(calls[w], "deleteBridge"))
    => (/\ ret[w] = ErrDeleteBridge
        /\ writes[w] = <<>>
        /\ Solo(w) => (/\ networks = Before(w)
                       /\ req[w].NetworkID \in DOMAIN networks))

C2_DeleteSteps ==
  \A w \in Workers :
    (req[w].op = "DeleteNetwork" /\ pc'[w] # pc[w])
    => (/\ networks' # networks => Succeeded(calls[w], "deleteBridge")
        /\ (pc'[w] = "done" /\ Failed(calls'[w], "deleteBridge")) => networks' = networks
        /\ (pc'[w] = "done" /\ ret'[w] = Ok) => req[w].NetworkID \notin DOMAIN networks')

\* C2: both parts, the state after a failed DeleteNetwork and the steps of
\* every DeleteNetwork.
C2_DeleteRemovesOnlyAfterBridgeDelete ==
  []C2_FailedDeleteKeepsEntry /\ [][C2_DeleteSteps]_vars

C2_Witness ==
  \E w \in Workers :
    /\ Done(w, "DeleteNetwork")
    /\ Failed(calls[w], "deleteBridge")
    /\ ret[w] = ErrDeleteBridge
    /\ Solo(w)
    /\ req[w].NetworkID \in DOMAIN networks

(* ------------------------------------------------------------------ *)
(* C3: starting from an empty registry, CreateNetwork(id) followed     *)
(* immediately by DeleteNetwork(id), both returning Ok and no other    *)
(* call in between, leaves the registry empty and issues exactly one   *)
(* initBridge call and exactly one deleteBridge call.                  *)
(* ------------------------------------------------------------------ *)
C3_CreateThenDeleteLeavesEmpty ==
  mon.phase = "finished"
  => (/\ networks = EmptyRegistry
      /\ mon.inits = 1
      /\ mon.dels = 1)

C3_Witness == mon.phase = "finished" /\ networks = EmptyRegistry /\ AllIdle

(* ------------------------------------------------------------------ *)
(* C4 as claimed: a Join on a network id with no registry entry (one   *)
(* that gets as far as resolving the network) triggers exactly one     *)
(* fallback lookup, and if the lookup reports another driver name the  *)
(* Join fails with the "Not our network" error having issued no kernel *)
(* mutation (LinkAdd, LinkSetUp) and no switch mutation (initBridge,   *)
(* addOvsVethPort).                                                    *)
(* ------------------------------------------------------------------ *)
ForeignLookup(w) ==
  \E i \in 1..Len(calls[w]) :
    /\ calls[w][i].call = "InspectNetwork"
    /\ calls[w][i].ok
    /\ calls[w][i].reply # DriverName

OneLookupWhenUnregistered(w) ==
  (/\ Done(w, "Join")
   /\ Solo(w)
   /\ req[w].NetworkID \notin DOMAIN Before(w)
   /\ Succeeded(calls[w], "LinkSetUp"))
  => Count(calls[w], "InspectNetwork") = 1

C4_ForeignNetworkNoMutation ==
  \A w \in Workers :
    req[w].op = "Join"
    => (/\ OneLookupWhenUnregistered(w)
        /\ ForeignLookup(w)
           => (/\ pc[w] = "done"
               /\ ret[w] = ErrNotOurNetwork
               /\ ~Issued(calls[w], "LinkAdd")
               /\ ~Issued(calls[w], "LinkSetUp")
               /\ ~Issued(calls[w], "initBridge")
               /\ ~Issued(calls[w], "addOvsVethPort")))

(* ------------------------------------------------------------------ *)
(* C4 as amended: a Join that has created the link pair and brought it *)
(* up, on a network id with no registry entry, triggers exactly one    *)
(* fallback lookup (never more than one); if the lookup reports        *)
(* another driver name the Join fails with the "Not our network"       *)
(* error, having issued no switch mutation (initBridge,                *)
(* addOvsVethPort) and no registry write, but after the two kernel     *)
(* mutations (LinkAdd, LinkSetUp), which are its only calls besides    *)
(* the lookup.                                                         *)
(* ------------------------------------------------------------------ *)
C4_ForeignNetworkNoSwitchMutation ==
  \A w \in Workers :
    req[w].op = "Join"
    => (/\ OneLookupWhenUnregistered(w)
        /\ Count(calls[w], "InspectNetwork") <= 1
        /\ ForeignLookup(w)
           => (/\ pc[w] = "done"
               /\ ret[w] = ErrNotOurNetwork
               /\ writes[w] = <<>>
               /\ Len(calls[w]) = 3
               /\ calls[w][1].call = "LinkAdd" /\ calls[w][1].ok
               /\ calls[w][2].call = "LinkSetUp" /\ calls[w][2].ok
               /\ calls[w][3].call = "InspectNetwork"))

C4_Witness ==
  \E w \in Workers :
    /\ Done(w, "Join")
    /\ ForeignLookup(w)
    /\ ret[w] = ErrNotOurNetwork
    /\ Succeeded(calls[w], "LinkAdd")
    /\ Solo(w)
    /\ req[w].NetworkID \notin DOMAIN Before(w)

(* ------------------------------------------------------------------ *)
(* C5: no two handlers are accessing the registry map at the same time *)
(* with at least one of them writing.                                  *)
(* ------------------------------------------------------------------ *)
C5_RegistryAccessExclusive ==
  \A v, w \in Workers : ~Conflict(v, w)

(* ------------------------------------------------------------------ *)
(* C6: every Leave call attempts the link-pair deletion and then,      *)
(* whatever its outcome, the port detachment, and returns the error of *)
(* the port detachment exactly when it fails.  (Stated for endpoint    *)
(* ids truncateID accepts; a shorter one stops Leave before both.)     *)
(* ------------------------------------------------------------------ *)
C6_LeaveAlwaysDetachesPort ==
  \A w \in Workers :
    (Done(w, "Leave") /\ ~truncateIDPanics(req[w].EndpointID))
    => (/\ Len(calls[w]) = 2
        /\ calls[w][1].call = "LinkDel"
        /\ calls[w][2].call = "deletePort"
        /\ ret[w] = IF calls[w][2].ok THEN Ok ELSE ErrDeletePort)

(* ------------------------------------------------------------------ *)
(* C7: DeleteNetwork(id) on an id with no registry entry returns an    *)
(* error to the caller (it does not panic), issues no deleteBridge     *)
(* call and leaves the registry unchanged.                             *)
(* ------------------------------------------------------------------ *)
C7_DeleteUnknownReturnsError ==
  \A w \in Workers :
    (/\ Done(w, "DeleteNetwork")
     /\ Solo(w)
     /\ req[w].NetworkID \notin DOMAIN Before(w))
    => (/\ ret[w] \in Errors
        /\ ~Issued(calls[w], "deleteBridge")
        /\ networks = Before(w))

(* ------------------------------------------------------------------ *)
(* C8: Join issues its calls in the order (a) LinkAdd, (b) LinkSetUp,  *)
(* (c) the resolution of the NetworkState (InspectNetwork, then        *)
(* initBridge, when the network is not registered), (d)                *)
(* addOvsVethPort; a call that fails is the last one issued and Join   *)
(* returns its error; Join returns Ok only after a successful          *)
(* addOvsVethPort; and nothing completed is undone: Join never issues  *)
(* LinkDel, deletePort or deleteBridge, and deletes from the registry  *)
(* only the entry its own failed step (c) has just set.                *)
(* ------------------------------------------------------------------ *)
JoinStep(name) ==
  CASE name = "LinkAdd" -> 1
    [] name = "LinkSetUp" -> 2
    [] name = "InspectNetwork" -> 3
    [] name = "initBridge" -> 3
    [] name = "addOvsVethPort" -> 4
    [] OTHER -> 0

ErrorOf(name) ==
  CASE name = "LinkAdd" -> ErrLinkAdd
    [] name = "LinkSetUp" -> ErrLinkSetUp
    [] name = "InspectNetwork" -> ErrInspectNetwork
    [] name = "initBridge" -> ErrInitBridge
    [] name = "addOvsVethPort" -> ErrAddPort
    [] OTHER -> ""

JoinCallsInOrder(c) ==
  /\ \A i \in 1..Len(c) : JoinStep(c[i].call) \in 1..4
  /\ Len(c) >= 1 => c[1].call = "LinkAdd"
  /\ Len(c) >= 2 => c[2].call = "LinkSetUp"
  /\ \A i, j \in 1..Len(c) :
       i < j => \/ JoinStep(c[i].call) < JoinStep(c[j].call)
                \/ (c[i].call = "InspectNetwork" /\ c[j].call = "initBridge")
  /\ \A i \in 1..Len(c) : i < Len(c) => c[i].ok

C9_NoLookupWhenRegistered ==
  \A w \in Workers :
    (req[w].op = "Join" /\ Solo(w) /\ req[w].NetworkID \in DOMAIN Before(w))
    => (~Issued(calls[w], "InspectNetwork") /\ networks = Before(w))

C9_ReconstructionRegisters ==
  \A w \in Workers :
    (Done(w, "Join") /\ Solo(w) /\ ret[w] = Ok /\ Issued(calls[w], "InspectNetwork"))
    => req[w].NetworkID \in DOMAIN networks

C9_NoSecondLookup ==
  \A w \in Workers :
    (req[w].op = "Join" /\ after[w]) => ~Issued(calls[w], "InspectNetwork")

\* C9: the three parts together.
C9_FallbackOnlyWhenUnregistered ==
  /\ C9_NoLookupWhenRegistered
  /\ C9_ReconstructionRegisters
  /\ C9_NoSecondLookup

(* ------------------------------------------------------------------ *)
(* C10: a CreateNetwork whose mode option is present and is neither    *)
(* nat nor flat returns the invalid-mode error, writes nothing to the  *)
(* registry and issues no initBridge call.  (Stated for requests that  *)
(* carry a gateway.)                                                   *)
(* ------------------------------------------------------------------ *)
C10_InvalidModeRejected ==
  \A w \in Workers :
    (/\ Done(w, "CreateNetwork")
     /\ getBridgeModeFails(req[w].Options)
     /\ Len(req[w].IPv4Data) > 0)
    => (/\ ret[w] = ErrInvalidMode
        /\ writes[w] = <<>>
        /\ ~Issued(calls[w], "initBridge")
        /\ Solo(w) => networks = Before(w))

(* ------------------------------------------------------------------ *)
(* C11: in every reachable state no two distinct network ids of the    *)
(* registry have the same bridge name.                                 *)
(* ------------------------------------------------------------------ *)
C11_BridgeNamesUnique ==
  \A a, b \in DOMAIN networks :
    a # b => networks[a].BridgeName # networks[b].BridgeName

(* ------------------------------------------------------------------ *)
(* C12: a successful Join(networkID, endpointID) returns as peer name  *)
(* "ethc" followed by the first 5 characters of endpointID, and as     *)
(* gateway the one recorded for networkID: for a network that was      *)
(* registered, the gateway of its entry (which a successful            *)
(* CreateNetwork sets to the gateway of its request); for a network    *)
(* reconstructed by this Join, the first IPv4 gateway the fallback     *)
(* lookup answered ("" when it answered none), which is then the       *)
(* gateway of the registered entry.                                    *)
(* ------------------------------------------------------------------ *)
\* g is the first IPv4 gateway of the list ipam, or "" when there is none.
IsFirstIPv4(g, ipam) ==
  \/ g = "" /\ \A i \in 1..Len(ipam) : ipam[i] \notin IPv4Literals
  \/ \E i \in 1..Len(ipam) :
       /\ ipam[i] = g
       /\ g \in IPv4Literals
       /\ \A j \in 1..(i - 1) : ipam[j] \notin IPv4Literals

JoinedOk(w) == Done(w, "Join") /\ ret[w] = Ok

C12_JoinReturnsPeerAndGateway ==
  /\ \A w \in Workers :
       JoinedOk(w)
       => (/\ Len(req[w].EndpointID) >= 5
           /\ resp[w].SrcName = "ethc" \o SubSeq(req[w].EndpointID, 1, 5)
           /\ Len(resp[w].SrcName) = 9
           /\ \A i \in 1..Len(calls[w]) :
                calls[w][i].call = "InspectNetwork"
                => IsFirstIPv4(resp[w].Gateway, calls[w][i].ipam)
           /\ Solo(w)
              => (/\ req[w].NetworkID \in DOMAIN networks
                  /\ resp[w].Gateway = networks[req[w].NetworkID].Gateway
                  /\ req[w].NetworkID \in DOMAIN Before(w)
                     => resp[w].Gateway = Before(w)[req[w].NetworkID].Gateway))
  /\ \A w \in Workers :
       (Done(w, "CreateNetwork") /\ ret[w] = Ok /\ Solo(w))
       => (/\ req[w].NetworkID \in DOMAIN networks
           /\ networks[req[w].NetworkID].Gateway = req[w].IPv4Data[1])

C12_Witness ==
  \E w \in Workers :
    /\ JoinedOk(w)
    /\ Solo(w)
    /\ req[w].EndpointID = "endpoint12345"
    /\ resp[w].SrcName = "ethcendpo"
    /\ resp[w].Gateway = "10.0.0.1"
    /\ req[w].NetworkID \in DOMAIN Before(w)

(* ------------------------------------------------------------------ *)
(* C13: for every network id, ids shorter than 5 characters included,  *)
(* a CreateNetwork(id, empty options, gateway g) whose initBridge does *)
(* not fail returns Ok and (no other call running) leaves the registry *)
(* mapping id to the state with bridge name "ovsbr-" followed by the   *)
(* id cut to at most 5 characters, MTU 1500, mode nat and gateway g.   *)
(* ------------------------------------------------------------------ *)
\* The id cut to its first 5 characters, whole when it has fewer.
AtMostFive(id) == IF Len(id) <= 5 THEN id ELSE SubSeq(id, 1, 5)

C13_CreateWithDefaults ==
  \A w \in Workers :
    (/\ Done(w, "CreateNetwork")
     /\ req[w].Options = EmptyOptions
     /\ Len(req[w].IPv4Data) > 0
     /\ ~Failed(calls[w], "initBridge"))
    => (/\ ret[w] = Ok
        /\ Solo(w)
           => (/\ req[w].NetworkID \in DOMAIN networks
               /\ LET state == networks[req[w].NetworkID]
                  IN /\ state.BridgeName = "ovsbr-" \o AtMostFive(req[w].NetworkID)
                     /\ state.MTU = 1500
                     /\ state.Mode = "nat"
                     /\ state.Gateway = req[w].IPv4Data[1]))

(* ------------------------------------------------------------------ *)
(* The resolvers on their own (ConfigSpec)                             *)
(* ------------------------------------------------------------------ *)
\* The resolver `name` has been called on the request of goroutine 1.
Applied(name) == Issued(calls[1], name)

\* The record of that call.
Outcome(name) == calls[1][CHOOSE i \in 1..Len(calls[1]) : calls[1][i].call = name]

GivenOptions == req[1].Options

(* ------------------------------------------------------------------ *)
(* C14: mode resolution returns nat or flat unchanged when the mode    *)
(* option has that value, fails with the invalid-mode error for any    *)
(* other non-empty value, and returns the default nat when the option  *)
(* is absent.                                                          *)
(* ------------------------------------------------------------------ *)
C14_ModeResolution ==
  Applied("getBridgeMode")
  => LET present == modeOption \in DOMAIN GivenOptions
         value == GivenOptions[modeOption]
     IN /\ ~present => (Outcome("getBridgeMode").ok /\ ns[1].Mode = "nat")
        /\ (present /\ value \in {"nat", "flat"})
           => (Outcome("getBridgeMode").ok /\ ns[1].Mode = value)
        /\ (present /\ value \notin {"nat", "flat", ""})
           => (/\ ~Outcome("getBridgeMode").ok
               /\ Outcome("getBridgeMode").reply = ErrInvalidMode
               /\ ns[1].Mode = NoState.Mode)

C14_Witness ==
  /\ Applied("getBridgeMode")
  /\ modeOption \in DOMAIN GivenOptions
  /\ GivenOptions[modeOption] = "bogus"
  /\ Outcome("getBridgeMode").reply = ErrInvalidMode

(* ------------------------------------------------------------------ *)
(* C15: MTU resolution never fails; it yields 1500 when the MTU option *)
(* is absent or not a numeric string, and the integer itself, of any   *)
(* sign and size, when the option parses as an integer.                *)
(* ------------------------------------------------------------------ *)
\* The integers the numeric strings of MTUValues denote.
Numeral(s) ==
  CASE s = "9000" -> 9000
    [] s = "0" -> 0
    [] s = "-1" -> 0 - 1
    [] s = "+5" -> 5

NumericStrings == {"9000", "0", "-1", "+5"}

C15_MTUResolution ==
  Applied("getBridgeMTU")
  => /\ Outcome("getBridgeMTU").ok
     /\ IF mtuOption \in DOMAIN GivenOptions /\ GivenOptions[mtuOption] \in NumericStrings
          THEN ns[1].MTU = Numeral(GivenOptions[mtuOption])
          ELSE ns[1].MTU = 1500

C15_Witness ==
  /\ Applied("getBridgeMTU")
  /\ mtuOption \in DOMAIN GivenOptions
  /\ GivenOptions[mtuOption] = "-1"
  /\ ns[1].MTU = 0 - 1

(* ------------------------------------------------------------------ *)
(* C16: bridge name resolution succeeds for every id; with the name    *)
(* option absent it yields "ovsbr-" followed by the id cut to at most  *)
(* 5 characters, and with the name option present it yields the option *)
(* value, whatever the id.                                             *)
(* ------------------------------------------------------------------ *)
C16_BridgeNameResolution ==
  Applied("getBridgeName")
  => /\ Outcome("getBridgeName").ok
     /\ IF bridgeNameOption \in DOMAIN GivenOptions
          THEN ns[1].BridgeName = GivenOptions[bridgeNameOption]
          ELSE ns[1].BridgeName = "ovsbr-" \o AtMostFive(req[1].NetworkID)

(* ------------------------------------------------------------------ *)
(* C17: startup makes at most 3 connection attempts to the switch,     *)
(* pausing 5 seconds after each failed one, makes none after a         *)
(* successful one, always comes to an end, and ends in the fatal error *)
(* (no driver, no request served) exactly when all the attempts it     *)
(* made have failed; when the docker client was obtained that is when  *)
(* 3 attempts were made and failed.                                    *)
(* ------------------------------------------------------------------ *)
StartupEnded == boot.phase \in {"serving", "failed"}

FailedAttempts == {k \in 1..Len(boot.attempts) : ~boot.attempts[k]}

AllAttemptsFailed == FailedAttempts = 1..Len(boot.attempts)

C17_StartupState ==
  /\ Len(boot.attempts) <= 3
  /\ \A k \in 1..Len(boot.attempts) : k < Len(boot.attempts) => ~boot.attempts[k]
  /\ boot.phase # "sleep" => boot.slept = 5 * Cardinality(FailedAttempts)
  /\ boot.phase = "check"
     => (/\ boot.docker
         /\ Len(boot.attempts) >= 1
         /\ boot.ovsdb = boot.attempts[Len(boot.attempts)]
         /\ AllAttemptsFailed => Len(boot.attempts) = 3)
  /\ boot.phase = "failed"
     => (/\ AllAttemptsFailed
         /\ boot.err = IF boot.docker THEN ErrOvsdb ELSE ErrDocker
         /\ Len(boot.attempts) = IF boot.docker THEN 3 ELSE 0)
  /\ boot.phase # "serving" => (ncalls = 0 /\ networks = EmptyRegistry /\ AllIdle)

\* How startup ends: with a driver only from a successful attempt, and never
\* with the error once an attempt has succeeded.
C17_StartupSteps ==
  /\ (boot.phase # "serving" /\ boot'.phase = "serving")
     => (boot.phase = "check" /\ ~AllAttemptsFailed /\ boot' = Constructed)
  /\ (boot.phase # "failed" /\ boot'.phase = "failed")
     => (AllAttemptsFailed /\ boot'.attempts = boot.attempts)
  /\ boot.phase \in {"serving", "failed"} => boot' = boot

\* C17: the states and the steps of startup, and its termination.
C17_StartupBoundedRetry ==
  []C17_StartupState /\ [][C17_StartupSteps]_vars /\ <>StartupEnded

C17_Witness ==
  /\ boot.phase = "failed"
  /\ boot.attempts = <<FALSE, FALSE, FALSE>>
  /\ boot.err = ErrOvsdb
  /\ boot.slept = 15

(* ------------------------------------------------------------------ *)
(* C18: a CreateNetwork call that returns an error (no other call      *)
(* running meanwhile) leaves the registry exactly as it was when the   *)
(* call was dispatched, an entry for the same id registered by an      *)
(* earlier CreateNetwork included.                                     *)
(* ------------------------------------------------------------------ *)
C18_FailedCreateLeavesRegistry ==
  \A w \in Workers :
    (Done(w, "CreateNetwork") /\ Solo(w) /\ ret[w] \in Errors)
    => networks = Before(w)

(* ------------------------------------------------------------------ *)
(* C19: when a CreateNetwork(id) and a Join on the same id are the     *)
(* only two calls made and run concurrently, the Join has issued its   *)
(* addOvsVethPort call only after an initBridge for id has succeeded   *)
(* (in the CreateNetwork, or in the Join's own reconstruction).        *)
(* ------------------------------------------------------------------ *)
C19_NoPartialNetworkVisible ==
  \A v, w \in Workers :
    (/\ ncalls = 2
     /\ req[v].op = "CreateNetwork"
     /\ req[w].op = "Join"
     /\ req[v].NetworkID = req[w].NetworkID
     /\ Issued(calls[w], "addOvsVethPort"))
    => (Succeeded(calls[v], "initBridge") \/ Succeeded(calls[w], "initBridge"))

(* ------------------------------------------------------------------ *)
(* C20: a Leave on a network id with no registry entry returns an      *)
(* error to the caller (it does not panic); and no Leave ever writes   *)
(* the registry or performs a fallback lookup.  (Stated for endpoint   *)
(* ids truncateID accepts.)                                            *)
(* ------------------------------------------------------------------ *)
C20_LeaveNeverTouchesRegistry ==
  \A w \in Workers :
    req[w].op = "Leave"
    => (/\ writes[w] = <<>>
        /\ ~Issued(calls[w], "InspectNetwork")
        /\ ~Issued(calls[w], "initBridge")
        /\ Solo(w) => networks = Before(w))

C20_LeaveUnknownReturnsError ==
  /\ C20_LeaveNeverTouchesRegistry
  /\ \A w \in Workers :
       (/\ Done(w, "Leave")
        /\ Solo(w)
        /\ req[w].NetworkID \notin DOMAIN Before(w)
        /\ ~truncateIDPanics(req[w].EndpointID))
       => ret[w] \in Errors

====
